---- MODULE Spec2Model ----
(***************************************************************************)
(* Model of GameController (src/dynamodb/gameController.py): the           *)
(* conditional-write protocol on one game record of the "Games" table.     *)
(*                                                                         *)
(* The table holds at most one item for the GameId the model follows       *)
(* (GameIds are unique per game, so createNewGame is issued once for it).  *)
(* Two sessions each hold the Item object returned by their last getGame;  *)
(* an Item carries its current data and the data it was loaded with.       *)
(*                                                                         *)
(* Store primitives, as the code uses them:                                *)
(*  - update_item / delete_item with expected=...: atomic, and raise       *)
(*    ConditionalCheckFailedException when an expectation fails (an        *)
(*    expectation on a value fails on a missing item or attribute);        *)
(*  - Item.save() (default overwrite=False): a put of the whole item       *)
(*    under the expectations boto builds from the Item: every attribute    *)
(*    the Item was loaded with still has its loaded value, every attribute *)
(*    new to the Item does not exist.  Attributes the Item does not hold   *)
(*    carry no expectation, and the put replaces the stored item.          *)
(***************************************************************************)
EXTENDS Integers, Sequences, FiniteSets, TLC

\* ---------------------------------------------------------------- bounds
\* number of board cells of `squares` the model plays on
NumCells == 2
\* value at which the clock read by datetime.now() stops advancing
MaxClock == 1
\* longest sequence a query hands to mergeQueries
MaxLen == 3
\* largest timestamp of the records handed to mergeQueries
MaxDate == 2
\* largest `limit` mergeQueries is called with
MaxLimit == 2

\* ------------------------------------------------------------- constants
AllSquares == <<"TopLeft", "TopMiddle", "TopRight", "MiddleLeft", "MiddleMiddle",
                "MiddleRight", "BottomLeft", "BottomMiddle", "BottomRight">>

squares == {AllSquares[i] : i \in 1..NumCells}

TheGameId == "g1"

\* creator and invitee are two different users
Players == {"alice", "bob"}

\* users that may act on the game: the two players and a bystander
Users == Players \cup {"carol"}

Sessions == {"s1", "s2"}

Outcomes == {"Win", "Lose", "Tie"}

ScalarKeys == {"GameId", "HostId", "StatusDate", "OUser", "Turn", "OpponentId", "Result"}

Keys == ScalarKeys \cup squares

\* Python None: the value item[key] yields for an attribute the item lacks
None == "None"

NoStatus == <<"None", 0>>

Absent(k) == IF k = "StatusDate" THEN NoStatus ELSE None

\* an item with no attributes (also: no item stored under the key)
EmptyItem == [k \in Keys |-> Absent(k)]

\* StatusDate is <phase>_<timestamp>
StatusDate(phase, date) == <<phase, date>>

Phase(item) == item["StatusDate"][1]

\* ComparisonOperator BEGINS_WITH on StatusDate
BeginsWith(item, prefix) == Phase(item) = prefix

ItemKeys(d) == {k \in Keys : d[k] # Absent(k)}

VARIABLES
    game,      \* the item stored under TheGameId (EmptyItem when there is none)
    snap,      \* per session: the Item object it holds, [data, orig]
    clock,     \* the value datetime.now() returns
    created,   \* createNewGame has been issued for TheGameId
    last,      \* the last controller call: operation, arguments, returned value
    nAccepted, \* number of acceptGameInvite calls that returned True
    nMoves,    \* number of updateBoardAndTurn calls that returned True
    mq         \* the locals of the mergeQueries call in progress

vars == <<game, snap, clock, created, last, nAccepted, nMoves, mq>>

gameVars == <<game, snap, clock, created, last, nAccepted, nMoves>>

NoCall == [op |-> "none", session |-> "none", player |-> "none", position |-> "none",
           ret |-> "none"]

Call(op, p, pos, ret) ==
    [op |-> op, session |-> "none", player |-> p, position |-> pos, ret |-> ret]

\* a changeGameToFinishedState call, with the session whose Item it was given
FinishCall(s, p, ret) ==
    [op |-> "finish", session |-> s, player |-> p, position |-> "none", ret |-> ret]

NoItemHeld == [data |-> EmptyItem, orig |-> EmptyItem]

Holds(s) == snap[s].data["GameId"] # None

\* no game record: the value None of game_one / game_two
NoGame == [src |-> "none", idx |-> 0, sd |-> 0]

\* no mergeQueries call is running
MergeIdle ==
    [pc |-> "idle", A |-> <<>>, B |-> <<>>, limit |-> 0, host |-> <<>>, opp |-> <<>>,
     games |-> <<>>, game_one |-> NoGame, game_two |-> NoGame,
     pulledHost |-> 0, pulledOpp |-> 0]

GameInit ==
    /\ game = EmptyItem
    /\ snap = [s \in Sessions |-> NoItemHeld]
    /\ clock = 0
    /\ created = FALSE
    /\ last = NoCall
    /\ nAccepted = 0
    /\ nMoves = 0

Init ==
    /\ GameInit
    /\ mq = MergeIdle

\* datetime.now(): the call reads `clock`; a later reading is never smaller
\* (readings past MaxClock repeat MaxClock)
ReadClock == clock' = IF clock < MaxClock THEN clock + 1 ELSE clock

\* ------------------------------------------------------------ Item.save
\* the expectation Item.build_expects puts on attribute k
ExpectOK(item, stored, k) ==
    LET o == item.orig[k]
        c == item.data[k]
    IN  IF o = c THEN stored[k] = c
        ELSE IF o = Absent(k) THEN stored[k] = Absent(k)
        ELSE stored[k] = o

\* variant: only the attributes new to the Item are expected (not to exist)
SaveExpectsNewOnly(item, stored) ==
    \A k \in ItemKeys(item.data) :
        item.orig[k] = Absent(k) => stored[k] = Absent(k)

\* variant: save(overwrite=True), a put without expectations
SaveOverwrite(item, stored) == TRUE

SaveExpectsHold(item, stored) ==
    \A k \in ItemKeys(item.data) \cup ItemKeys(item.orig) : ExpectOK(item, stored, k)

\* -------------------------------------------------------- createNewGame
\* variant: the creator is given the first turn
NewGameDataHostFirst(creator, invitee, now) ==
    [EmptyItem EXCEPT !["GameId"] = TheGameId,
                      !["HostId"] = creator,
                      !["StatusDate"] = StatusDate("PENDING", now),
                      !["OUser"] = creator,
                      !["Turn"] = creator,
                      !["OpponentId"] = invitee]

NewGameData(creator, invitee, now) ==
    [EmptyItem EXCEPT !["GameId"] = TheGameId,
                      !["HostId"] = creator,
                      !["StatusDate"] = StatusDate("PENDING", now),
                      !["OUser"] = creator,
                      !["Turn"] = invitee,
                      !["OpponentId"] = invitee]

createNewGame(creator, invitee) ==
    LET item == [data |-> NewGameData(creator, invitee, clock), orig |-> EmptyItem]
    IN  /\ ~created
        /\ creator # invitee
        /\ created' = TRUE
        /\ IF SaveExpectsHold(item, game)
           THEN /\ game' = item.data
                /\ last' = Call("create", creator, "none", "True")
           ELSE /\ game' = game
                /\ last' = Call("create", creator, "none", "Raise")
        /\ ReadClock
        /\ UNCHANGED <<snap, nAccepted, nMoves, mq>>

\* -------------------------------------------------------------- getGame
getGame(s) ==
    /\ snap' = [snap EXCEPT ![s] = IF game = EmptyItem THEN NoItemHeld
                                   ELSE [data |-> game, orig |-> game]]
    /\ last' = Call("get", "none", "none", IF game = EmptyItem THEN "None" ELSE "Item")
    /\ UNCHANGED <<game, clock, created, nAccepted, nMoves, mq>>

\* ----------------------------------------------------- acceptGameInvite
\* variant: the update is also let through on a game already IN_PROGRESS
AcceptGuardAnyOpen(stored) ==
    BeginsWith(stored, "PENDING") \/ BeginsWith(stored, "IN_PROGRESS")

AcceptGuard(stored) == BeginsWith(stored, "PENDING")

acceptGameInvite(s) ==
    /\ Holds(s)
    /\ IF AcceptGuard(game)
       THEN /\ game' = [game EXCEPT !["StatusDate"] = StatusDate("IN_PROGRESS", clock)]
            /\ last' = Call("accept", "none", "none", "True")
            /\ nAccepted' = nAccepted + 1
       ELSE /\ game' = game
            /\ last' = Call("accept", "none", "none", "False")
            /\ nAccepted' = nAccepted
    /\ ReadClock
    /\ UNCHANGED <<snap, created, nMoves, mq>>

\* ----------------------------------------------------- rejectGameInvite
\* variant: the delete carries no expectation
RejectGuardNone(stored) == stored # EmptyItem

RejectGuard(stored) == BeginsWith(stored, "PENDING")

rejectGameInvite(s) ==
    /\ Holds(s)
    /\ IF RejectGuard(game)
       THEN /\ game' = EmptyItem
            /\ last' = Call("reject", "none", "none", "True")
       ELSE /\ game' = game
            /\ last' = Call("reject", "none", "none", "False")
    /\ UNCHANGED <<snap, clock, created, nAccepted, nMoves, mq>>

\* --------------------------------------------------- updateBoardAndTurn
\* variant: every player is given "X"
RepresentationAlwaysX(item, current_player) == "X"

Representation(item, current_player) ==
    IF item["OUser"] = current_player THEN "O" ELSE "X"

NextPlayer(item, current_player) ==
    IF current_player = item["HostId"] THEN item["OpponentId"] ELSE item["HostId"]

\* variant: the expectation on the target cell is left out
MoveGuardNoCell(stored, position, current_player) ==
    /\ BeginsWith(stored, "IN_PROGRESS")
    /\ stored["Turn"] = current_player

\* variant: the expectation on Turn is left out
MoveGuardNoTurn(stored, position, current_player) ==
    /\ BeginsWith(stored, "IN_PROGRESS")
    /\ stored[position] = None

MoveGuard(stored, position, current_player) ==
    /\ BeginsWith(stored, "IN_PROGRESS")
    /\ stored["Turn"] = current_player
    /\ stored[position] = None

updateBoardAndTurn(s, position, current_player) ==
    LET item == snap[s].data
    IN  /\ Holds(s)
        /\ IF MoveGuard(game, position, current_player)
           THEN /\ game' = [game EXCEPT ![position] = Representation(item, current_player),
                                        !["Turn"] = NextPlayer(item, current_player)]
                /\ last' = Call("move", current_player, position, "True")
                /\ nMoves' = nMoves + 1
           ELSE /\ game' = game
                /\ last' = Call("move", current_player, position, "False")
                /\ nMoves' = nMoves
        /\ UNCHANGED <<snap, clock, created, nAccepted, mq>>

\* -------------------------------------- getBoardState, checkForGameResult
getBoardState(item) ==
    [i \in 1..NumCells |-> IF item[AllSquares[i]] = None THEN " " ELSE item[AllSquares[i]]]

\* the body is left to be filled in: its first statement is `return "Win"`
checkForGameResult(board, item, current_player) == "Win"

\* -------------------------------------------- changeGameToFinishedState
\* variant: the "Lose" branch names the acting player's own side
FinalResultLoseSwapped(item, result, current_user) ==
    IF result = "Tie" THEN "Tie"
    ELSE IF result = "Win" THEN current_user
    ELSE IF item["HostId"] = current_user THEN item["HostId"]
    ELSE item["OpponentId"]

FinalResult(item, result, current_user) ==
    IF result = "Tie" THEN "Tie"
    ELSE IF result = "Win" THEN current_user
    ELSE IF item["HostId"] = current_user THEN item["OpponentId"]
    ELSE item["HostId"]

\* variant: Turn is not reset when the game is finished
FinishedDataKeepTurn(item, result, current_user, now) ==
    [item EXCEPT !["StatusDate"] = StatusDate("FINISHED", now),
                 !["Result"] = FinalResult(item, result, current_user)]

FinishedData(item, result, current_user, now) ==
    [item EXCEPT !["StatusDate"] = StatusDate("FINISHED", now),
                 !["Turn"] = "N/A",
                 !["Result"] = FinalResult(item, result, current_user)]

\* variant: the check for an existing Result is left out
AlreadyFinishedNever(item) == FALSE

\* "Happens if you're visiting a game that already has a winner"
AlreadyFinished(item) == item["Result"] # None

changeGameToFinishedState(s, result, current_user) ==
    /\ Holds(s)
    /\ IF AlreadyFinished(snap[s].data)
       THEN /\ last' = FinishCall(s, current_user, "True")
            /\ UNCHANGED <<game, snap, clock>>
       ELSE LET item == [snap[s] EXCEPT !.data = FinishedData(snap[s].data, result, current_user, clock)]
            IN  /\ ReadClock
                /\ IF SaveExpectsHold(item, game)
                   THEN /\ game' = item.data
                        /\ snap' = [snap EXCEPT ![s] = [data |-> item.data, orig |-> item.data]]
                        /\ last' = FinishCall(s, current_user, "True")
                   ELSE /\ game' = game
                        /\ snap' = [snap EXCEPT ![s] = item]
                        /\ last' = FinishCall(s, current_user, "Raise")
    /\ UNCHANGED <<created, nAccepted, nMoves, mq>>

\* ----------------------------------------------------------------- Next
Next ==
    \/ \E creator \in Players, invitee \in Players : createNewGame(creator, invitee)
    \/ \E s \in Sessions : getGame(s)
    \/ \E s \in Sessions : acceptGameInvite(s)
    \/ \E s \in Sessions : rejectGameInvite(s)
    \/ \E s \in Sessions, position \in squares, p \in Users : updateBoardAndTurn(s, position, p)
    \/ \E s \in Sessions, result \in Outcomes, p \in Users : changeGameToFinishedState(s, result, p)

Spec == Init /\ [][Next]_vars

\* ------------------------------------------- the backend call itself fails
\* update_item raises something other than ConditionalCheckFailedException
\* (the backend is unreachable, the response is malformed): acceptGameInvite
\* catches only ConditionalCheckFailedException, so the exception leaves it
acceptGameInviteBackendError(s) ==
    /\ Holds(s)
    /\ last' = Call("accept", "none", "none", "Raise")
    /\ ReadClock
    /\ UNCHANGED <<game, snap, created, nAccepted, nMoves, mq>>

\* delete_item raises: `except Exception` catches it and False is returned
rejectGameInviteBackendError(s) ==
    /\ Holds(s)
    /\ last' = Call("reject", "none", "none", "False")
    /\ UNCHANGED <<game, snap, clock, created, nAccepted, nMoves, mq>>

\* update_item raises: updateBoardAndTurn catches only
\* ConditionalCheckFailedException, so the exception leaves it
updateBoardAndTurnBackendError(s, position, current_player) ==
    /\ Holds(s)
    /\ last' = Call("move", current_player, position, "Raise")
    /\ UNCHANGED <<game, snap, clock, created, nAccepted, nMoves, mq>>

NextFaulty ==
    \/ Next
    \/ \E s \in Sessions : acceptGameInviteBackendError(s)
    \/ \E s \in Sessions : rejectGameInviteBackendError(s)
    \/ \E s \in Sessions, position \in squares, p \in Users :
          updateBoardAndTurnBackendError(s, position, p)

\* the controller on a backend whose calls may fail
SpecFaulty == Init /\ [][NextFaulty]_vars

\* --------------------------------------------------------- mergeQueries
\* The two arguments are iterators over query results, each in descending
\* order of StatusDate.  A record is [src, idx, sd]: the query it comes from,
\* its place in that query's result and the timestamp of its StatusDate (the
\* records of one call share the status prefix).

\* the timestamps of a query result of n records, in descending order
SortedDates(n) ==
    {d \in [1..n -> 1..MaxDate] : \A i \in 1..n : \A j \in 1..n : i < j => d[i] >= d[j]}

QueryResult(src, dates) ==
    [i \in 1..Len(dates) |-> [src |-> src, idx |-> i, sd |-> dates[i]]]

\* the locals on entry to mergeQueries(host, opp, limit)
MergeStart(A, B, limit) ==
    [pc |-> "loop", A |-> A, B |-> B, limit |-> limit, host |-> A, opp |-> B,
     games |-> <<>>, game_one |-> NoGame, game_two |-> NoGame,
     pulledHost |-> 0, pulledOpp |-> 0]

MergeInit ==
    /\ GameInit
    /\ \E n \in 0..MaxLen, m \in 0..MaxLen, limit \in 0..MaxLimit :
          \E da \in SortedDates(n), db \in SortedDates(m) :
              mq = MergeStart(QueryResult("host", da), QueryResult("opp", db), limit)

\* `for rest in it: if len(games) == limit: break else: games.append(rest)`:
\* the loop takes a record from the iterator before it looks at the limit
RECURSIVE Drain(_, _, _, _)
Drain(games, it, limit, pulled) ==
    IF it = <<>> THEN [games |-> games, it |-> it, pulled |-> pulled]
    ELSE IF Len(games) = limit
         THEN [games |-> games, it |-> Tail(it), pulled |-> pulled + 1]
         ELSE Drain(Append(games, Head(it)), Tail(it), limit, pulled + 1)

\* `game_one > game_two` on two Item objects.  Item defines no ordering, so
\* the result does not come from StatusDate: Python 2 orders the two objects
\* by identity (either answer), Python 3 raises TypeError.
ItemGreaterOutcomes(game_one, game_two) == {"True", "False", "TypeError"}

\* lines 310-322: game_one is None, take the next record of host
mergeQueriesNextHost ==
    /\ mq.pc = "loop"
    /\ Len(mq.games) <= mq.limit
    /\ mq.game_one = NoGame
    /\ IF mq.host # <<>>
       THEN mq' = [mq EXCEPT !.game_one = Head(mq.host), !.host = Tail(mq.host),
                             !.pulledHost = mq.pulledHost + 1]
       ELSE LET g == IF mq.game_two # NoGame THEN Append(mq.games, mq.game_two)
                     ELSE mq.games
                d == Drain(g, mq.opp, mq.limit, mq.pulledOpp)
            IN  mq' = [mq EXCEPT !.games = d.games, !.opp = d.it,
                                 !.pulledOpp = d.pulled, !.pc = "done"]
    /\ UNCHANGED gameVars

\* lines 324-336: game_two is None, take the next record of opp
mergeQueriesNextOpp ==
    /\ mq.pc = "loop"
    /\ Len(mq.games) <= mq.limit
    /\ mq.game_one # NoGame
    /\ mq.game_two = NoGame
    /\ IF mq.opp # <<>>
       THEN mq' = [mq EXCEPT !.game_two = Head(mq.opp), !.opp = Tail(mq.opp),
                             !.pulledOpp = mq.pulledOpp + 1]
       ELSE LET g == IF mq.game_one # NoGame THEN Append(mq.games, mq.game_one)
                     ELSE mq.games
                d == Drain(g, mq.host, mq.limit, mq.pulledHost)
            IN  mq' = [mq EXCEPT !.games = d.games, !.host = d.it,
                                 !.pulledHost = d.pulled, !.pc = "done"]
    /\ UNCHANGED gameVars

\* lines 338-343: both heads are there, emit one of them
mergeQueriesCompare ==
    /\ mq.pc = "loop"
    /\ Len(mq.games) <= mq.limit
    /\ mq.game_one # NoGame
    /\ mq.game_two # NoGame
    /\ \E greater \in ItemGreaterOutcomes(mq.game_one, mq.game_two) :
          CASE greater = "True" ->
                  mq' = [mq EXCEPT !.games = Append(mq.games, mq.game_one),
                                   !.game_one = NoGame]
            [] greater = "False" ->
                  mq' = [mq EXCEPT !.games = Append(mq.games, mq.game_two),
                                   !.game_two = NoGame]
            [] OTHER -> mq' = [mq EXCEPT !.pc = "raised"]
    /\ UNCHANGED gameVars

\* lines 309, 345: the loop condition fails, games is returned
mergeQueriesReturn ==
    /\ mq.pc = "loop"
    /\ Len(mq.games) > mq.limit
    /\ mq' = [mq EXCEPT !.pc = "done"]
    /\ UNCHANGED gameVars

MergeNext ==
    \/ mergeQueriesNextHost
    \/ mergeQueriesNextOpp
    \/ mergeQueriesCompare
    \/ mergeQueriesReturn

\* one call of mergeQueries on any two query results and any limit
MergeSpec == MergeInit /\ [][MergeNext]_vars

\* ---------------------------------------------------------------- claims
Exists(item) == item # EmptyItem

Even(n) == n % 2 = 0

PhaseRank(item) ==
    CASE Phase(item) = "PENDING" -> 1
      [] Phase(item) = "IN_PROGRESS" -> 2
      [] Phase(item) = "FINISHED" -> 3
      [] OTHER -> 0

\* C1: an acceptGameInvite call returns True exactly when the stored game is
\* PENDING at that moment; that call puts IN_PROGRESS_ into StatusDate, every
\* other call returns False and leaves the item alone, StatusDate gets the
\* IN_PROGRESS_ prefix in no other way, and over the life of the game at most
\* one call has returned True.
C1_AcceptStep ==
    /\ last'.op = "accept" =>
          /\ (last'.ret = "True") <=> Phase(game) = "PENDING"
          /\ last'.ret = "True" => Phase(game') = "IN_PROGRESS" /\ nAccepted' = 1
          /\ last'.ret = "False" => game' = game /\ nAccepted' = nAccepted
    /\ (Phase(game) # "IN_PROGRESS" /\ Phase(game') = "IN_PROGRESS") =>
          last'.op = "accept" /\ last'.ret = "True"
    /\ nAccepted' <= 1

C1_ExactlyOneAccept == [][C1_AcceptStep]_vars

\* a second acceptGameInvite was refused after the first had been accepted
C1_Witness ==
    /\ last.op = "accept"
    /\ last.ret = "False"
    /\ nAccepted = 1
    /\ Phase(game) = "IN_PROGRESS"

\* C2: the stored phase never moves backwards and never skips IN_PROGRESS:
\* while the item exists, a step leaves the phase where it is or moves it to
\* the next one of PENDING, IN_PROGRESS, FINISHED.
C2_PhaseStep ==
    (Exists(game) /\ Exists(game')) =>
        \/ PhaseRank(game') = PhaseRank(game)
        \/ PhaseRank(game') = PhaseRank(game) + 1

C2_PhaseAdvances == [][C2_PhaseStep]_vars

\* C3: a board cell that holds "X" or "O" holds the same value after every step.
C3_CellStep == \A k \in squares : game[k] # None => game'[k] = game[k]

C3_CellWriteOnce == [][C3_CellStep]_vars

\* C4: an updateBoardAndTurn call on a cell that is set in the stored item
\* returns False and leaves the stored item unchanged, whoever acts.
C4_OccupiedStep ==
    (last'.op = "move" /\ game[last'.position] # None) =>
        last'.ret = "False" /\ game' = game

C4_OccupiedCellRejected == [][C4_OccupiedStep]_vars

\* the player whose turn it is was refused a cell that is already set
C4_Witness ==
    /\ last.op = "move"
    /\ last.ret = "False"
    /\ Phase(game) = "IN_PROGRESS"
    /\ game["Turn"] = last.player
    /\ game[last.position] # None

\* C5: an updateBoardAndTurn call by a player other than the stored Turn
\* returns False and leaves the stored item unchanged.
C5_WrongTurnStep ==
    (last'.op = "move" /\ last'.player # game["Turn"]) =>
        last'.ret = "False" /\ game' = game

C5_WrongTurnRejected == [][C5_WrongTurnStep]_vars

\* a player was refused a free cell of a game in progress because the turn had
\* passed on, while the Item of every session still showed it as that player's turn
C5_Witness ==
    /\ last.op = "move"
    /\ last.ret = "False"
    /\ Phase(game) = "IN_PROGRESS"
    /\ game[last.position] = None
    /\ game["Turn"] # last.player
    /\ \A s \in Sessions :
          /\ Phase(snap[s].data) = "IN_PROGRESS"
          /\ snap[s].data["Turn"] = last.player

\* C6 (as stated): in an accepted, unfinished game Turn is HostId after an even
\* number of successful moves and OpponentId after an odd number.
C6_HostMovesFirst ==
    Phase(game) = "IN_PROGRESS" =>
        game["Turn"] = IF Even(nMoves) THEN game["HostId"] ELSE game["OpponentId"]

\* C6 (amended): in an accepted, unfinished game Turn is OpponentId after an
\* even number of successful moves and HostId after an odd number: the invitee
\* makes the first move.
C6_InviteeMovesFirst ==
    Phase(game) = "IN_PROGRESS" =>
        game["Turn"] = IF Even(nMoves) THEN game["OpponentId"] ELSE game["HostId"]

\* two moves have been applied and the game is still in progress
C6_Witness ==
    /\ Phase(game) = "IN_PROGRESS"
    /\ nMoves = 2
    /\ game["Turn"] = game["OpponentId"]

\* C7: while the game is PENDING or IN_PROGRESS Turn is HostId or OpponentId;
\* a successful updateBoardAndTurn moves Turn from one of the two to the other;
\* a FINISHED game has Turn "N/A" and stays FINISHED with Turn "N/A".
C7_TurnOK ==
    /\ Phase(game) \in {"PENDING", "IN_PROGRESS"} =>
          game["Turn"] \in {game["HostId"], game["OpponentId"]}
    /\ Phase(game) = "FINISHED" => game["Turn"] = "N/A"

C7_TurnStep ==
    /\ C7_TurnOK'
    /\ (last'.op = "move" /\ last'.ret = "True") =>
          /\ game["Turn"] \in {game["HostId"], game["OpponentId"]}
          /\ game'["Turn"] \in {game["HostId"], game["OpponentId"]}
          /\ game'["Turn"] # game["Turn"]
    /\ Phase(game) = "FINISHED" =>
          Phase(game') = "FINISHED" /\ game'["Turn"] = "N/A"

C7_TurnAlternates == [][C7_TurnStep]_vars

\* a move was tried on a game that was finished after a move had been applied
C7_Witness ==
    /\ Phase(game) = "FINISHED"
    /\ game["Turn"] = "N/A"
    /\ nMoves >= 1
    /\ last.op = "move"

\* C8: Result changes only from absent to a value, only in a step that also
\* takes the phase to FINISHED, and a Result that is set is never changed or
\* removed.
C8_ResultStep ==
    /\ game["Result"] # None => game'["Result"] = game["Result"]
    /\ (game["Result"] = None /\ game'["Result"] # None) =>
          Phase(game) # "FINISHED" /\ Phase(game') = "FINISHED"

C8_ResultSetOnce == [][C8_ResultStep]_vars

\* two sessions raced to finish the game from Items read before either wrote:
\* one Result is stored and the losing call, which wanted another, has failed
C8_Witness ==
    /\ game["Result"] # None
    /\ last.op = "finish"
    /\ last.ret = "Raise"
    /\ snap[last.session].orig["Result"] = None
    /\ Phase(snap[last.session].orig) = "IN_PROGRESS"
    /\ snap[last.session].data["Result"] # game["Result"]

\* C9: a changeGameToFinishedState call given an Item whose Result is set
\* returns True and writes nothing; so does a call that follows a successful
\* call on the same Item; and a call given an unfinished Item that is still
\* what the store holds returns True and leaves a Result in the store and in
\* the Item (so that calling twice from a current Item succeeds twice, and
\* only the first call writes).
C9_FinishAgainStep ==
    /\ (last'.op = "finish" /\ snap[last'.session].data["Result"] = None
          /\ snap[last'.session].data = game /\ snap[last'.session].orig = game) =>
          /\ last'.ret = "True"
          /\ game'["Result"] # None
          /\ snap'[last'.session].data["Result"] = game'["Result"]
    /\ (last'.op = "finish" /\ snap[last'.session].data["Result"] # None) =>
          last'.ret = "True" /\ game' = game /\ snap' = snap
    /\ (last.op = "finish" /\ last.ret = "True"
          /\ last'.op = "finish" /\ last'.session = last.session) =>
          last'.ret = "True" /\ game' = game

C9_FinishIdempotent == [][C9_FinishAgainStep]_vars

\* changeGameToFinishedState returned True to a bystander on an Item that
\* already held the stored Result (a Result no call by a bystander computes)
C9_Witness ==
    /\ last.op = "finish"
    /\ last.ret = "True"
    /\ last.player = "carol"
    /\ Phase(game) = "FINISHED"
    /\ game["Result"] = game["OpponentId"]
    /\ snap[last.session].data = game
    /\ snap[last.session].orig = game

\* C10: rejectGameInvite on a stored game that is PENDING deletes the item and
\* returns True; in every other case it returns False and leaves the store
\* as it is.
C10_RejectStep ==
    last'.op = "reject" =>
        IF Phase(game) = "PENDING"
        THEN last'.ret = "True" /\ ~Exists(game')
        ELSE last'.ret = "False" /\ game' = game

C10_RejectOnlyPending == [][C10_RejectStep]_vars

\* a rejectGameInvite was refused on a game in which a move has been made
C10_Witness ==
    /\ last.op = "reject"
    /\ last.ret = "False"
    /\ Phase(game) = "IN_PROGRESS"
    /\ nMoves >= 1

\* C11: a FINISHED item is changed by no call, and once the item of a created
\* game is gone (rejectGameInvite has deleted it) no call stores an item
\* under its GameId again.
C11_TerminalStep ==
    /\ Phase(game) = "FINISHED" => game' = game
    /\ (created /\ ~Exists(game)) => ~Exists(game')

C11_Terminal == [][C11_TerminalStep]_vars

\* after the invite was rejected, changeGameToFinishedState was given an Item
\* read before the delete: it failed and nothing is stored
C11_Witness ==
    /\ created
    /\ ~Exists(game)
    /\ last.op = "finish"
    /\ last.ret = "Raise"
    /\ Phase(snap[last.session].orig) = "PENDING"

\* C17: a changeGameToFinishedState call that stores its Item (the Item's
\* Result was unset) stores Result "Tie" for outcome Tie, the acting player
\* for Win, and for Lose OpponentId if the acting player is HostId and HostId
\* otherwise; the same write sets the FINISHED_ prefix and Turn "N/A".
C17_Expected(item, result, current_user) ==
    CASE result = "Tie" -> "Tie"
      [] result = "Win" -> current_user
      [] result = "Lose" /\ current_user = item["HostId"] -> item["OpponentId"]
      [] OTHER -> item["HostId"]

C17_FinishStep ==
    (last'.op = "finish" /\ last'.ret = "True"
        /\ snap[last'.session].data["Result"] = None) =>
        \A result \in Outcomes :
            changeGameToFinishedState(last'.session, result, last'.player) =>
                /\ game'["Result"] = C17_Expected(game, result, last'.player)
                /\ Phase(game') = "FINISHED"
                /\ game'["Turn"] = "N/A"
                /\ Phase(game) # "FINISHED"

C17_FinalResult == [][C17_FinishStep]_vars

\* the host was the acting player of a finish call and the game is stored as
\* won by the opponent
C17_Witness ==
    /\ last.op = "finish"
    /\ last.ret = "True"
    /\ last.player = game["HostId"]
    /\ game["Result"] = game["OpponentId"]
    /\ Phase(game) = "FINISHED"
    /\ game["Turn"] = "N/A"
    /\ nMoves >= 1

\* C18: an updateBoardAndTurn call returns True only when the stored game is
\* IN_PROGRESS, its Turn is the acting player and the target cell is unset;
\* the stored item then differs from the one before in exactly the target
\* cell ("O" if the acting player is OUser, else "X") and Turn (HostId if the
\* acting player is OpponentId, else OpponentId).
C18_MoveStep ==
    (last'.op = "move" /\ last'.ret = "True") =>
        LET p == last'.player
            pos == last'.position
        IN  /\ Phase(game) = "IN_PROGRESS"
            /\ game["Turn"] = p
            /\ game[pos] = None
            /\ game' = [game EXCEPT
                  ![pos] = IF p = game["OUser"] THEN "O" ELSE "X",
                  !["Turn"] = IF p = game["OpponentId"] THEN game["HostId"]
                              ELSE game["OpponentId"]]

C18_MoveFrame == [][C18_MoveStep]_vars

\* the host (who is OUser) has just put an "O" after the invitee's "X"
C18_Witness ==
    /\ last.op = "move"
    /\ last.ret = "True"
    /\ last.player = game["HostId"]
    /\ game[last.position] = "O"
    /\ game["Turn"] = game["OpponentId"]
    /\ nMoves = 2
    /\ \E k \in squares : game[k] = "X"

\* C19: once a move has been applied after which checkForGameResult reports
\* "Win" or "Tie", no later updateBoardAndTurn call returns True.
C19_Decisive ==
    /\ nMoves >= 1
    /\ \E p \in Players :
          checkForGameResult(getBoardState(game), game, p) \in {"Win", "Tie"}

C19_AfterDecisiveStep ==
    C19_Decisive => ~(last'.op = "move" /\ last'.ret = "True")

C19_NoMoveAfterDecisive == [][C19_AfterDecisiveStep]_vars

\* C20: in every state of a created game the number of set cells is the number
\* of updateBoardAndTurn calls that returned True, there are as many "X" as
\* "O" cells or one more, and while the game is not FINISHED Turn is
\* OpponentId exactly when the two counts are equal.
CountCells(item, v) == Cardinality({k \in squares : item[k] = v})

C20_CellCounts ==
    Exists(game) =>
        /\ CountCells(game, "X") + CountCells(game, "O") = nMoves
        /\ CountCells(game, "X") - CountCells(game, "O") \in {0, 1}
        /\ Phase(game) # "FINISHED" =>
              (game["Turn"] = game["OpponentId"]
                  <=> CountCells(game, "X") = CountCells(game, "O"))

\* the same three facts, in the states where the game is not FINISHED
C20_CellCountsUnfinished == Phase(game) # "FINISHED" => C20_CellCounts

Min(a, b) == IF a < b THEN a ELSE b

\* C12: the list mergeQueries returns has min(limit, |A| + |B|) records.
C12_Length ==
    mq.pc = "done" => Len(mq.games) = Min(mq.limit, Len(mq.A) + Len(mq.B))

\* C13: the list mergeQueries returns is in descending order of StatusDate,
\* and its records from the first argument are a prefix of the first
\* argument, in order, and likewise for the second: nothing is duplicated,
\* skipped or reordered.
FromSource(games, src) == SelectSeq(games, LAMBDA g : g.src = src)

IsPrefix(p, q) == Len(p) <= Len(q) /\ p = SubSeq(q, 1, Len(p))

C13_SortedInterleaving ==
    mq.pc = "done" =>
        /\ \A i \in 1..Len(mq.games) : \A j \in 1..Len(mq.games) :
              i < j => mq.games[i].sd >= mq.games[j].sd
        /\ IsPrefix(FromSource(mq.games, "host"), mq.A)
        /\ IsPrefix(FromSource(mq.games, "opp"), mq.B)

\* C14: when the two pending heads have the same StatusDate and one of them
\* is emitted, it is the head taken from the first argument.
C14_TieStep ==
    (/\ mq.pc = "loop"
     /\ mq.game_one # NoGame
     /\ mq.game_two # NoGame
     /\ mq.game_one.sd = mq.game_two.sd
     /\ Len(mq'.games) = Len(mq.games) + 1) =>
        mq'.games[Len(mq'.games)] = mq.game_one

C14_TieFirstArgument == [][C14_TieStep]_vars

\* C15: a call of mergeQueries takes at most limit + 1 records from each of
\* its two arguments.
C15_LazyPull ==
    /\ mq.pulledHost <= mq.limit + 1
    /\ mq.pulledOpp <= mq.limit + 1

\* C16: acceptGameInvite, rejectGameInvite and updateBoardAndTurn return False
\* only when the conditional check of the store failed, that is only when the
\* stored item does not meet the call's expectations; a call whose backend
\* request failed otherwise does not return False.
C16_FalseStep ==
    /\ (last'.op = "accept" /\ last'.ret = "False") => ~AcceptGuard(game)
    /\ (last'.op = "reject" /\ last'.ret = "False") => ~RejectGuard(game)
    /\ (last'.op = "move" /\ last'.ret = "False") =>
          ~MoveGuard(game, last'.position, last'.player)

C16_FalseOnlyOnGuardFailure == [][C16_FalseStep]_vars

TypeOK ==
    /\ clock \in 0..MaxClock
    /\ created \in BOOLEAN
    /\ DOMAIN game = Keys
====
